---- MODULE Spec2Model ----
(***************************************************************************)
(* Model of the air-quality scoring code of la-fire-monitoring:            *)
(*   src/app/app_streamlit.py              (legacy EPA table, WAQI)        *)
(*   src/la_fire_monitoring/app_streamlit.py (2024 EPA table, OpenAQ)      *)
(*                                                                         *)
(* The scoring functions compute on Python floats (IEEE-754 binary64).     *)
(* Ties of round() and exact equalities depend on the rounding of every    *)
(* intermediate operation, so the model carries binary64 values and rounds *)
(* each operation to nearest-even as the interpreter does.                 *)
(***************************************************************************)
EXTENDS Integers, Sequences, FiniteSets, TLC

(***************************************************************************)
(* Natural numbers of any size: little-endian sequences of 15-bit limbs    *)
(* with no high zero limb (zero is the empty sequence).  They hold the     *)
(* 53-bit significands of binary64 values and the exact intermediate       *)
(* results that are rounded back to 53 bits.                               *)
(***************************************************************************)
LimbBits == 3 * 5
Base == 32 * 1024

RECURSIVE Pow2(_)
Pow2(n) == IF n = 0 THEN 1 ELSE 2 * Pow2(n - 1)

RECURSIVE IntBitLen(_)
IntBitLen(n) == IF n = 0 THEN 0 ELSE 1 + IntBitLen(n \div 2)

RECURSIVE BStrip(_)
BStrip(a) ==
    IF a = <<>> THEN a
    ELSE IF a[Len(a)] = 0 THEN BStrip(SubSeq(a, 1, Len(a) - 1))
    ELSE a

RECURSIVE BFromInt(_)
BFromInt(n) == IF n = 0 THEN <<>> ELSE <<n % Base>> \o BFromInt(n \div Base)

RECURSIVE BToInt(_)
BToInt(a) == IF a = <<>> THEN 0 ELSE a[1] + Base * BToInt(Tail(a))

Limb(a, i) == IF i <= Len(a) THEN a[i] ELSE 0

RECURSIVE BAddC(_, _, _, _)
BAddC(a, b, i, c) ==
    IF i > Len(a) /\ i > Len(b) THEN (IF c = 0 THEN <<>> ELSE <<c>>)
    ELSE LET x == Limb(a, i) + Limb(b, i) + c
         IN  <<x % Base>> \o BAddC(a, b, i + 1, x \div Base)

BAdd(a, b) == BAddC(a, b, 1, 0)

RECURSIVE BSubC(_, _, _, _)
BSubC(a, b, i, br) ==
    IF i > Len(a) THEN <<>>
    ELSE LET x == a[i] - Limb(b, i) - br
         IN  IF x < 0 THEN <<x + Base>> \o BSubC(a, b, i + 1, 1)
             ELSE <<x>> \o BSubC(a, b, i + 1, 0)

\* a - b for a >= b
BSub(a, b) == BStrip(BSubC(a, b, 1, 0))

RECURSIVE BCmpAt(_, _, _)
BCmpAt(a, b, i) ==
    IF i = 0 THEN 0
    ELSE IF a[i] < b[i] THEN -1
    ELSE IF a[i] > b[i] THEN 1
    ELSE BCmpAt(a, b, i - 1)

\* -1, 0, 1 as a < b, a = b, a > b
BCmp(a, b) ==
    IF Len(a) < Len(b) THEN -1
    ELSE IF Len(a) > Len(b) THEN 1
    ELSE BCmpAt(a, b, Len(a))

RECURSIVE BMulSmallC(_, _, _, _)
BMulSmallC(a, d, i, c) ==
    IF i > Len(a) THEN (IF c = 0 THEN <<>> ELSE <<c>>)
    ELSE LET x == a[i] * d + c
         IN  <<x % Base>> \o BMulSmallC(a, d, i + 1, x \div Base)

\* a * d for 0 <= d < Base
BMulSmall(a, d) == IF d = 0 THEN <<>> ELSE BMulSmallC(a, d, 1, 0)

BShiftLimbs(a, k) == IF a = <<>> THEN a ELSE [i \in 1..k |-> 0] \o a

RECURSIVE BMulAt(_, _, _)
BMulAt(a, b, i) ==
    IF i > Len(b) THEN <<>>
    ELSE BAdd(BShiftLimbs(BMulSmall(a, b[i]), i - 1), BMulAt(a, b, i + 1))

BMul(a, b) == BMulAt(a, b, 1)

\* a * 2^s
BShl(a, s) == BShiftLimbs(BMulSmall(a, Pow2(s % LimbBits)), s \div LimbBits)

RECURSIVE BDivSmallAt(_, _, _, _)
BDivSmallAt(a, d, i, r) ==
    IF i = 0 THEN <<>>
    ELSE LET x == r * Base + a[i]
         IN  BDivSmallAt(a, d, i - 1, x % d) \o <<x \div d>>

\* floor(a / 2^s)
BShr(a, s) ==
    LET k == s \div LimbBits
    IN  IF k >= Len(a) THEN <<>>
        ELSE LET hi == SubSeq(a, k + 1, Len(a))
             IN  BStrip(BDivSmallAt(hi, Pow2(s % LimbBits), Len(hi), 0))

BBitLen(a) ==
    IF a = <<>> THEN 0 ELSE LimbBits * (Len(a) - 1) + IntBitLen(a[Len(a)])

BIsOdd(a) == a # <<>> /\ a[1] % 2 = 1

\* a / 2^s (s >= 1) rounded to the nearest integer, ties to even
\* q is floor(a / 2^s), cmp compares the remainder with 2^(s-1)
BRoundUp(q, cmp) ==
    IF cmp > 0 \/ (cmp = 0 /\ BIsOdd(q)) THEN BAdd(q, <<1>>) ELSE q
BRoundQuot(a, s, q) ==
    BRoundUp(q, BCmp(BSub(a, BShl(q, s)), BShl(<<1>>, s - 1)))
BRoundShr(a, s) == BRoundQuot(a, s, BShr(a, s))

(***************************************************************************)
(* Python values are records.  A finite float is sign * m * 2^e with m a   *)
(* 53-bit significand (2^52 <= m < 2^53), or zero (m empty); NaN is the    *)
(* float nan, None is Python's None, and PyInt(n) is the int n where a     *)
(* value may be an int or None.  Subnormals and overflow to infinity lie   *)
(* outside the magnitudes the inputs of the model reach.                   *)
(***************************************************************************)
SigBits == 53
NaN == [nan |-> TRUE]
None == [none |-> TRUE]
PyInt(n) == [int |-> n]
IsInt(x) == DOMAIN x = {"int"}

FZero == [sign |-> 1, m |-> <<>>, e |-> 0]

IsFloat(x) == x # None /\ x # NaN

\* the binary64 nearest to sign * M * 2^E, ties to even
\* (M of L bits, q its rounding to SigBits bits, which may carry into one more)
FRoundCarry(s, E, L, q) ==
    IF BBitLen(q) > SigBits
    THEN [sign |-> s, m |-> BShr(q, 1), e |-> E + (L - SigBits) + 1]
    ELSE [sign |-> s, m |-> q, e |-> E + (L - SigBits)]
FRoundLen(s, M, E, L) ==
    IF L <= SigBits
    THEN [sign |-> s, m |-> BShl(M, SigBits - L), e |-> E - (SigBits - L)]
    ELSE FRoundCarry(s, E, L, BRoundShr(M, L - SigBits))
FRound(s, M, E) == IF M = <<>> THEN FZero ELSE FRoundLen(s, M, E, BBitLen(M))

\* float(n) of a Python int
FromInt(n) == FRound(IF n < 0 THEN -1 ELSE 1, BFromInt(IF n < 0 THEN -n ELSE n), 0)

FNeg(a) == IF a.m = <<>> THEN a ELSE [a EXCEPT !.sign = -a.sign]

\* -1, 0, 1 as |a| < |b|, |a| = |b|, |a| > |b|
FCmpMag(a, b) ==
    IF a.m = <<>> THEN (IF b.m = <<>> THEN 0 ELSE -1)
    ELSE IF b.m = <<>> THEN 1
    ELSE IF a.e < b.e THEN -1
    ELSE IF a.e > b.e THEN 1
    ELSE BCmp(a.m, b.m)

\* -1, 0, 1 as a < b, a = b, a > b (finite floats)
FCmp(a, b) ==
    IF a.sign # b.sign THEN (IF a.sign < b.sign THEN -1 ELSE 1)
    ELSE a.sign * FCmpMag(a, b)

\* Python's comparisons: every comparison with nan is False
FLe(a, b) == a # NaN /\ b # NaN /\ FCmp(a, b) <= 0
FLt(a, b) == a # NaN /\ b # NaN /\ FCmp(a, b) < 0
FGt(a, b) == a # NaN /\ b # NaN /\ FCmp(a, b) > 0
FEq(a, b) == a # NaN /\ b # NaN /\ FCmp(a, b) = 0

\* a + b for a, b # 0: Ma, Mb are the significands at the common exponent
\* e0 and c compares them; the exact sum is rounded once
FAddAligned(a, b, e0, Ma, Mb, c) ==
    FRound(IF a.sign = b.sign \/ c >= 0 THEN a.sign ELSE b.sign,
           IF a.sign = b.sign THEN BAdd(Ma, Mb)
           ELSE IF c >= 0 THEN BSub(Ma, Mb) ELSE BSub(Mb, Ma),
           e0)
FAddAt(a, b, e0, Ma, Mb) == FAddAligned(a, b, e0, Ma, Mb, BCmp(Ma, Mb))
FAddExp(a, b, e0) == FAddAt(a, b, e0, BShl(a.m, a.e - e0), BShl(b.m, b.e - e0))
FAdd(a, b) ==
    IF a.m = <<>> THEN b
    ELSE IF b.m = <<>> THEN a
    ELSE FAddExp(a, b, IF a.e < b.e THEN a.e ELSE b.e)

FSub(a, b) == FAdd(a, FNeg(b))

FMul(a, b) == FRound(a.sign * b.sign, BMul(a.m, b.m), a.e + b.e)

\* k steps of restoring division of r by d (r < 2 * d) after the quotient
\* bits q: <<quotient bits, remainder>>
RECURSIVE DivChunk(_, _, _, _)
DivChunk(r, d, k, q) ==
    IF k = 0 THEN <<q, r>>
    ELSE IF BCmp(r, d) >= 0
         THEN DivChunk(BMulSmall(BSub(r, d), 2), d, k - 1, 2 * q + 1)
         ELSE DivChunk(BMulSmall(r, 2), d, k - 1, 2 * q)

\* n limbs of the quotient of r by d (r < 2 * d), shifted left by one bit,
\* plus 1 (a sticky bit) if the division is inexact:
\* 2 * floor(r * 2^(LimbBits * n - 1) / d) + sticky
RECURSIVE DivLimbs(_, _, _)
DivLimbs(r, d, n) ==
    IF n = 0 THEN (IF r = <<>> THEN <<>> ELSE <<1>>)
    ELSE LET c == DivChunk(r, d, LimbBits, 0)
         IN  BAdd(BShl(BFromInt(c[1]), LimbBits * (n - 1) + 1),
                  DivLimbs(c[2], d, n - 1))

\* a / b for b # 0: the quotient to 60 bits with a sticky bit, then rounded
FDiv(a, b) ==
    IF a.m = <<>> THEN FZero
    ELSE FRound(a.sign * b.sign, DivLimbs(a.m, b.m, 4), a.e - b.e - 4 * LimbBits)

\* the number of low zero bits of a # 0
RECURSIVE IntTrailingZeros(_)
IntTrailingZeros(n) == IF n % 2 = 1 THEN 0 ELSE 1 + IntTrailingZeros(n \div 2)

RECURSIVE BTrailingZeros(_, _)
BTrailingZeros(a, i) ==
    IF a[i] = 0 THEN LimbBits + BTrailingZeros(a, i + 1) ELSE IntTrailingZeros(a[i])

RECURSIVE BPow(_, _)
BPow(a, i) ==
    IF i = 0 THEN <<1>>
    ELSE LET p == BPow(a, i - 1) IN IF p = <<>> THEN <<>> ELSE BMul(p, a)

\* libm's pow is not correctly rounded: its error stays below 0.54 ulp, so
\* an exact power within 1/25 ulp of the midpoint of two floats may come
\* back as either of them.  rem is the part of the exact significand below
\* the last kept bit, sh the number of bits dropped.
FPowNearTie(rem, sh, half) ==
    BCmp(BMulSmall(IF BCmp(rem, half) >= 0 THEN BSub(rem, half) ELSE BSub(half, rem), 25),
         BShl(half, 1)) < 0

\* the floats pow may return for the exact power s * M * 2^E, M of L >
\* SigBits bits, qd the top SigBits bits of M
FPowNeighbours(s, M, E, L, qd) ==
    IF FPowNearTie(BSub(M, BShl(qd, L - SigBits)), L - SigBits,
                   BShl(<<1>>, L - SigBits - 1))
    THEN {FRoundCarry(s, E, L, qd), FRoundCarry(s, E, L, BAdd(qd, <<1>>))}
    ELSE {FRoundCarry(s, E, L, BRoundShr(M, L - SigBits))}

FPowOutcomes(s, M, E, L) ==
    IF L <= SigBits THEN {FRoundLen(s, M, E, L)}
    ELSE FPowNeighbours(s, M, E, L, BShr(M, L - SigBits))

FPowOf(s, M, E) == FPowOutcomes(s, M, E, BBitLen(M))

\* w ** i for a float w and an int i >= 0: the set of floats the build's
\* pow may return, from the exact power of w = odd * 2^(e + z)
FPow(w, i) ==
    IF i = 0 THEN {FromInt(1)}
    ELSE IF w.m = <<>> THEN {FZero}
    ELSE LET z == BTrailingZeros(w.m, 1)
         IN  FPowOf(IF i % 2 = 0 THEN 1 ELSE w.sign, BPow(BShr(w.m, z), i), (w.e + z) * i)

\* round(x) of a finite float: the nearest int, ties to even
PyRound(x) ==
    IF x.m = <<>> THEN 0
    ELSE IF x.e >= 0 THEN x.sign * BToInt(BShl(x.m, x.e))
    ELSE x.sign * BToInt(BRoundShr(x.m, -x.e))

\* the float of the decimal literal n / 10^k, e.g. Dec(121, 10) is 12.1
Dec(n, scale) == FDiv(FromInt(n), FromInt(scale))

(***************************************************************************)
(* src/app/app_streamlit.py: the legacy-table dashboard.                   *)
(***************************************************************************)

\* lines 20-24, one branch's expression:
\*   round((Ihigh - Ilow) / (Chigh - Clow) * (pm25_val - Clow) + Ilow)
app_interpolate(pm25_val, Clow, Chigh, Ilow, Ihigh) ==
    PyRound(FAdd(FMul(FDiv(FromInt(Ihigh - Ilow), FSub(Chigh, Clow)),
                      FSub(pm25_val, Clow)),
                 FromInt(Ilow)))

\* the float literals of lines 20-24, (Clow, Chigh) of each branch, written as
\* the binary64 values the interpreter reads them as; app_bps_decimal gives
\* the same table from the decimal literals
app_bps ==
    <<
       << FZero,    \* 0
          [sign |-> 1, m |-> <<0, 0, 0, 192>>, e |-> -49] >>,    \* 12.0
       << [sign |-> 1, m |-> <<13107, 26214, 19660, 193>>, e |-> -49],    \* 12.1
          [sign |-> 1, m |-> <<13107, 26214, 19660, 141>>, e |-> -47] >>,    \* 35.4
       << [sign |-> 1, m |-> <<0, 0, 0, 142>>, e |-> -47],    \* 35.5
          [sign |-> 1, m |-> <<13107, 26214, 19660, 221>>, e |-> -47] >>,    \* 55.4
       << [sign |-> 1, m |-> <<0, 0, 0, 222>>, e |-> -47],    \* 55.5
          [sign |-> 1, m |-> <<19661, 6553, 13107, 150>>, e |-> -45] >>,    \* 150.4
       << [sign |-> 1, m |-> <<0, 0, 16384, 150>>, e |-> -45],    \* 150.5
          [sign |-> 1, m |-> <<19661, 6553, 13107, 250>>, e |-> -45] >>    \* 250.4
    >>

app_bps_decimal ==
    << <<FromInt(0),     Dec(120, 10)>>,
       <<Dec(121, 10),   Dec(354, 10)>>,
       <<Dec(355, 10),   Dec(554, 10)>>,
       <<Dec(555, 10),   Dec(1504, 10)>>,
       <<Dec(1505, 10),  Dec(2504, 10)>> >>

\* lines 20-25: the if/elif chain that sets aqi (pm25_val is not None)
app_aqi(pm25_val) ==
    IF FLe(app_bps[1][1], pm25_val) /\ FLe(pm25_val, app_bps[1][2])
    THEN app_interpolate(pm25_val, app_bps[1][1], app_bps[1][2], 0, 50)
    ELSE IF FLe(app_bps[2][1], pm25_val) /\ FLe(pm25_val, app_bps[2][2])
    THEN app_interpolate(pm25_val, app_bps[2][1], app_bps[2][2], 51, 100)
    ELSE IF FLe(app_bps[3][1], pm25_val) /\ FLe(pm25_val, app_bps[3][2])
    THEN app_interpolate(pm25_val, app_bps[3][1], app_bps[3][2], 101, 150)
    ELSE IF FLe(app_bps[4][1], pm25_val) /\ FLe(pm25_val, app_bps[4][2])
    THEN app_interpolate(pm25_val, app_bps[4][1], app_bps[4][2], 151, 200)
    ELSE IF FLe(app_bps[5][1], pm25_val) /\ FLe(pm25_val, app_bps[5][2])
    THEN app_interpolate(pm25_val, app_bps[5][1], app_bps[5][2], 201, 300)
    ELSE 301

\* lines 27-32: the category chosen for aqi
app_category(aqi) ==
    IF aqi <= 50 THEN "Good"
    ELSE IF aqi <= 100 THEN "Moderate"
    ELSE IF aqi <= 150 THEN "Unhealthy for Sensitive Groups"
    ELSE IF aqi <= 200 THEN "Unhealthy"
    ELSE IF aqi <= 300 THEN "Very Unhealthy"
    ELSE "Hazardous"

\* pm25_to_aqi of src/app/app_streamlit.py: the pair (aqi, category)
app_pm25_to_aqi(pm25_val) ==
    IF pm25_val = None THEN <<PyInt(0), "Unknown">>
    ELSE LET aqi == app_aqi(pm25_val) IN <<PyInt(aqi), app_category(aqi)>>

\* generate_summary_report, line 48: the colour of the air-quality line
report_aqi_color(aqi_value) ==
    IF aqi_value.int <= 50 THEN "green"
    ELSE IF aqi_value.int <= 100 THEN "orange"
    ELSE "red"

(***************************************************************************)
(* src/la_fire_monitoring/app_streamlit.py: the 2024-table dashboard.      *)
(***************************************************************************)

\* lines 78-85: (Clow, Chigh, Ilow, Ihigh), the floats written as the binary64
\* values the interpreter reads them as; bps_decimal gives the same table from
\* the decimal literals
bps ==
    <<
       << FZero,    \* 0.0
          [sign |-> 1, m |-> <<0, 0, 0, 144>>, e |-> -49],    \* 9.0
          0, 50 >>,
       << [sign |-> 1, m |-> <<13107, 26214, 19660, 145>>, e |-> -49],    \* 9.1
          [sign |-> 1, m |-> <<13107, 26214, 19660, 141>>, e |-> -47],    \* 35.4
          51, 100 >>,
       << [sign |-> 1, m |-> <<0, 0, 0, 142>>, e |-> -47],    \* 35.5
          [sign |-> 1, m |-> <<13107, 26214, 19660, 221>>, e |-> -47],    \* 55.4
          101, 150 >>,
       << [sign |-> 1, m |-> <<0, 0, 0, 222>>, e |-> -47],    \* 55.5
          [sign |-> 1, m |-> <<6554, 13107, 26214, 250>>, e |-> -46],    \* 125.4
          151, 200 >>,
       << [sign |-> 1, m |-> <<0, 0, 0, 251>>, e |-> -46],    \* 125.5
          [sign |-> 1, m |-> <<19661, 6553, 13107, 225>>, e |-> -45],    \* 225.4
          201, 300 >>,
       << [sign |-> 1, m |-> <<0, 0, 16384, 225>>, e |-> -45],    \* 225.5
          [sign |-> 1, m |-> <<26214, 19660, 22937, 162>>, e |-> -44],    \* 325.4
          301, 500 >>
    >>

bps_decimal ==
    << <<Dec(0, 10),    Dec(90, 10),   0,   50>>,
       <<Dec(91, 10),   Dec(354, 10),  51,  100>>,
       <<Dec(355, 10),  Dec(554, 10),  101, 150>>,
       <<Dec(555, 10),  Dec(1254, 10), 151, 200>>,
       <<Dec(1255, 10), Dec(2254, 10), 201, 300>>,
       <<Dec(2255, 10), Dec(3254, 10), 301, 500>> >>

\* the binary64 tables are the decimal tables of the source
TablesAsWritten == app_bps = app_bps_decimal /\ bps = bps_decimal

\* interpolate with the index range taken as Ihigh, not Ihigh - Ilow
interpolate_full_range(c, Clow, Chigh, Ilow, Ihigh) ==
    PyRound(FAdd(FMul(FDiv(FSub(c, Clow), FSub(Chigh, Clow)),
                      FromInt(Ihigh)),
                 FromInt(Ilow)))

\* line 88: round(((c - Clow) / (Chigh - Clow)) * (Ihigh - Ilow) + Ilow)
interpolate(c, Clow, Chigh, Ilow, Ihigh) ==
    PyRound(FAdd(FMul(FDiv(FSub(c, Clow), FSub(Chigh, Clow)),
                      FromInt(Ihigh - Ilow)),
                 FromInt(Ilow)))

\* lines 86-90: the loop over bps from band i on, and the cap after it
RECURSIVE pm25_to_aqi_from(_, _)
pm25_to_aqi_from(c, i) ==
    IF i > Len(bps) THEN 500
    ELSE IF FLe(bps[i][1], c) /\ FLe(c, bps[i][2])
    THEN interpolate(c, bps[i][1], bps[i][2], bps[i][3], bps[i][4])
    ELSE pm25_to_aqi_from(c, i + 1)

\* pm25_to_aqi, lines 74-90
pm25_to_aqi(c) == IF c = None THEN None ELSE PyInt(pm25_to_aqi_from(c, 1))

\* aqi <= n of lines 94-98 and 103-107, for aqi an int, a float or nan
\* (every comparison with nan is False)
aqi_le(aqi, n) ==
    IF aqi = NaN THEN FALSE
    ELSE IF IsInt(aqi) THEN aqi.int <= n
    ELSE FLe(aqi, FromInt(n))

\* aqi_category, lines 92-99
aqi_category(aqi) ==
    IF aqi = None THEN "Unknown"
    ELSE IF aqi_le(aqi, 50) THEN "Good"
    ELSE IF aqi_le(aqi, 100) THEN "Moderate"
    ELSE IF aqi_le(aqi, 150) THEN "Unhealthy for Sensitive Groups"
    ELSE IF aqi_le(aqi, 200) THEN "Unhealthy"
    ELSE IF aqi_le(aqi, 300) THEN "Very Unhealthy"
    ELSE "Hazardous"

\* aqi_color, lines 101-108
aqi_color(aqi) ==
    IF aqi = None THEN "#999999"
    ELSE IF aqi_le(aqi, 50) THEN "#00e400"
    ELSE IF aqi_le(aqi, 100) THEN "#ffff00"
    ELSE IF aqi_le(aqi, 150) THEN "#ff7e00"
    ELSE IF aqi_le(aqi, 200) THEN "#ff0000"
    ELSE IF aqi_le(aqi, 300) THEN "#8f3f97"
    ELSE "#7e0023"

\* lines 211 and 292-293: the value r["aqi_nowcast"] that iterrows() gives
\* for a sensor whose row was appended with aqi.  pd.DataFrame keeps a
\* column of ints as int64; with a None among numbers the column is
\* float64, the ints are floats and the None is nan; a column of None
\* only stays object.
frame_aqi(aqi, dtype) ==
    IF dtype = "int64" THEN aqi
    ELSE IF dtype = "float64" THEN (IF aqi = None THEN NaN ELSE FromInt(aqi.int))
    ELSE None

\* the dtypes the aqi_nowcast column can have when one of its rows is aqi
frame_dtypes(aqi) == IF aqi = None THEN {"float64", "object"} ELSE {"int64", "float64"}

\* a Python list: the elements of f evaluated once, in order
AsList(f) == f \o <<>>

Reversed(seq) == AsList([i \in 1..Len(seq) |-> seq[Len(seq) + 1 - i]])

\* np.sum of a float array a[1..n]: pairwise_sum of numpy for n < 128.
\* Fewer than 8 elements are added left to right; otherwise eight lanes
\* collect every eighth element of the full blocks, the lanes are added
\* pairwise and the rest is added left to right.
\* res + a[i] + a[i + step] + ... up to a[last], added left to right
RECURSIVE AddStride(_, _, _, _, _)
AddStride(res, a, i, step, last) ==
    IF i > last THEN res ELSE AddStride(FAdd(res, a[i]), a, i + step, step, last)

\* ((r[1] + r[2]) + (r[3] + r[4])) + ((r[5] + r[6]) + (r[7] + r[8]))
RECURSIVE PairSum(_, _, _)
PairSum(r, lo, hi) ==
    IF lo = hi THEN r[lo]
    ELSE FAdd(PairSum(r, lo, (lo + hi) \div 2), PairSum(r, (lo + hi) \div 2 + 1, hi))

np_sum_lanes(a, blocks) ==
    AsList([j \in 1..8 |-> AddStride(a[j], a, j + 8, 8, 8 * blocks)])

np_sum(a) ==
    IF Len(a) < 8 THEN AddStride(FZero, a, 1, 1, Len(a))
    ELSE AddStride(PairSum(np_sum_lanes(a, Len(a) \div 8), 1, 8),
                   a, 8 * (Len(a) \div 8) + 1, 1, Len(a))

\* max(vals) and min(vals) of a non-empty list of finite floats
RECURSIVE py_max(_, _)
py_max(vals, n) ==
    IF n = 1 THEN vals[1]
    ELSE LET best == py_max(vals, n - 1)
         IN  IF FGt(vals[n], best) THEN vals[n] ELSE best

RECURSIVE py_min(_, _)
py_min(vals, n) ==
    IF n = 1 THEN vals[1]
    ELSE LET best == py_min(vals, n - 1)
         IN  IF FLt(vals[n], best) THEN vals[n] ELSE best

FHalf == [sign |-> 1, m |-> <<0, 0, 0, 128>>, e |-> -53]

\* line 56: v is not None and not math.isnan(v)
IsValidReading(v) == v # None /\ v # NaN

\* line 64/67: [w ** i for i in range(len(vals_rev))], the lists of weights
\* the build may compute (one list unless a power falls near a tie)
RECURSIVE nowcast_weights(_, _)
nowcast_weights(w, n) ==
    IF n = 0 THEN {<<>>}
    ELSE {Append(weights, p) : weights \in nowcast_weights(w, n - 1), p \in FPow(w, n - 1)}

\* line 68: weights * vals_rev
nowcast_products(weights, vals_rev) ==
    AsList([k \in 1..Len(vals_rev) |-> FMul(weights[k], vals_rev[k])])

\* nowcast_average without the division by the sum of the weights
nowcast_average_unnormalised(w, vals_rev) ==
    {np_sum(nowcast_products(weights, vals_rev)) :
        weights \in nowcast_weights(w, Len(vals_rev))}

\* line 68, given w: float(np.sum(weights * vals_rev) / np.sum(weights)),
\* one value for each list of weights the build may compute
nowcast_average(w, vals_rev) ==
    {FDiv(np_sum(nowcast_products(weights, vals_rev)), np_sum(weights)) :
        weights \in nowcast_weights(w, Len(vals_rev))}

\* nowcast_order without the reversal: the oldest reading first
nowcast_order_as_given(vals) == vals

\* line 66: vals_rev = reversed(vals), the most recent reading first
nowcast_order(vals) == Reversed(vals)

\* nowcast_pm25, lines 55-68: the set of values the call may return
nowcast_pm25(last_12_hours) ==
    LET vals == SelectSeq(last_12_hours, IsValidReading)
    IN  IF Len(vals) < 2 THEN {None}
        ELSE LET cmax == py_max(vals, Len(vals))
                 cmin == py_min(vals, Len(vals))
             IN  IF FLe(cmax, FZero) THEN {FZero}
                 ELSE LET ratio == FDiv(cmin, cmax)
                          w == IF FGt(ratio, FHalf) THEN ratio ELSE FHalf
                      IN  nowcast_average(w, nowcast_order(vals))

\* line 193: sorted(ts, key=lambda x: x[0]), a stable sort by timestamp
RECURSIVE InsertByTime(_, _)
InsertByTime(sorted, row) ==
    IF sorted = <<>> THEN <<row>>
    ELSE IF sorted[Len(sorted)].t <= row.t THEN Append(sorted, row)
    ELSE Append(InsertByTime(SubSeq(sorted, 1, Len(sorted) - 1), row),
                sorted[Len(sorted)])

RECURSIVE SortByTime(_, _)
SortByTime(ts, n) ==
    IF n = 0 THEN <<>> ELSE InsertByTime(SortByTime(ts, n - 1), ts[n])

\* line 194: the slice [-12:]
WindowHours == 12
LastHours(values) ==
    IF Len(values) <= WindowHours THEN values
    ELSE SubSeq(values, Len(values) - WindowHours + 1, Len(values))

\* A JSON number n / scale as the API sends it, and the float r.json() reads
Decimal(n, scale) == [dec |-> n, scale |-> scale]
ToFloat(j) == IF j = None \/ j = NaN THEN j ELSE Dec(j.dec, j.scale)

\* lines 189-194: the hourly values of one sensor, oldest first
sensor_values(rows) ==
    LET ts == SortByTime(rows, Len(rows))
    IN  LastHours(AsList([i \in 1..Len(ts) |-> ToFloat(ts[i].value)]))

\* sensor_aqi_input without the fall-back to the latest value
sensor_aqi_input_nowcast_only(nc, values) == nc

\* line 196: the concentration given to pm25_to_aqi
sensor_aqi_input(nc, values) ==
    IF nc # None THEN nc
    ELSE IF values # <<>> THEN values[Len(values)] ELSE None

\* fetch_openaq_pm25_hours_bbox, lines 187-208: the row appended to
\* sensor_rows for one sensor whose hourly request returned rows
\* lines 197-208: latest and the row, given values, nc and aqi
sensor_row_of(values, nc, aqi) ==
    [pm25_latest_ugm3  |-> IF values # <<>> THEN values[Len(values)] ELSE None,
     pm25_nowcast_ugm3 |-> nc,
     aqi_nowcast       |-> aqi,
     category          |-> aqi_category(aqi)]
\* line 196, given values and nc
sensor_row_nowcast(values, nc) ==
    sensor_row_of(values, nc, pm25_to_aqi(sensor_aqi_input(nc, values)))
\* line 195, given values: one row for each value nowcast_pm25 may return
sensor_row_values(values) ==
    {sensor_row_nowcast(values, nc) : nc \in nowcast_pm25(values)}
sensor_row(rows) == sensor_row_values(sensor_values(rows))

(***************************************************************************)
(* The state: the inputs of the scoring operations and `out`, the results  *)
(* of the operations that have run, by operation name.                     *)
(***************************************************************************)
VARIABLES
    pm25_value,   \* the concentration given to both pm25_to_aqi variants
    aqi_in,       \* an AQI given to the category and colour lookups
    rows,         \* the hourly rows OpenAQ returned for one sensor
    city_coords,  \* the reference coordinate of analyze_fire_impact, or None
    df_fires,     \* the hotspot rows given to analyze_fire_impact
    df_forecast,  \* the daily forecast rows of the WAQI feed
    df_aq,        \* the legacy script's current-reading frame
    aqi_value,    \* the legacy script's aqi_value
    impactful_fires_df,   \* the legacy script's impactful_fires_df
    pc,           \* the section the legacy script is about to run
    assigned,     \* the names the legacy script has assigned so far
    out           \* operation name -> its result

script == <<df_aq, aqi_value, impactful_fires_df, pc, assigned>>
inputs == <<pm25_value, aqi_in, rows, city_coords, df_fires, df_forecast, script>>
vars == <<pm25_value, aqi_in, rows, city_coords, df_fires, df_forecast, script, out>>

\* the script is not running: the operations are called on their own
NoScript ==
    /\ df_aq = <<>>
    /\ aqi_value = None
    /\ impactful_fires_df = <<>>
    /\ pc = "idle"
    /\ assigned = {}

Put(f, k, v) == (k :> v) @@ f
Ran(op) == op \in DOMAIN out

(***************************************************************************)
(* Spec: one concentration through both dashboards' scoring functions.     *)
(***************************************************************************)
Delta == 1
\* the band edges of both tables, in hundredths of a ug/m3
EdgeHundredths ==
    {0, 900, 910, 1200, 1210, 3540, 3550, 5540, 5550, 12540, 12550,
     15040, 15050, 22540, 22550, 25040, 25050, 32540}
\* concentrations whose interpolated value lies on or next to a tie of round()
TieHundredths == {81, 351, 540}
ConcHundredths ==
    {e + d : e \in EdgeHundredths, d \in (-Delta)..Delta} \cup TieHundredths
ConcInputs == {None, NaN} \cup {Decimal(n, 100) : n \in ConcHundredths}

Init ==
    /\ pm25_value \in ConcInputs
    /\ aqi_in = None
    /\ rows = <<>>
    /\ city_coords = None
    /\ df_fires = <<>>
    /\ df_forecast = <<>>
    /\ NoScript
    /\ out = <<>>

\* src/app/app_streamlit.py line 163: aqi_value, aqi_category = pm25_to_aqi(pm25_value)
CallAppPm25ToAqi ==
    /\ ~Ran("app_pm25_to_aqi")
    /\ out' = Put(out, "app_pm25_to_aqi", app_pm25_to_aqi(ToFloat(pm25_value)))
    /\ UNCHANGED inputs

\* src/app/app_streamlit.py line 165 and 48: the colour of the report's AQI
CallReportColor ==
    /\ Ran("app_pm25_to_aqi")
    /\ ~Ran("report_aqi_color")
    /\ out' = Put(out, "report_aqi_color", report_aqi_color(out["app_pm25_to_aqi"][1]))
    /\ UNCHANGED inputs

\* src/la_fire_monitoring/app_streamlit.py: pm25_to_aqi(c)
CallPm25ToAqi ==
    /\ ~Ran("pm25_to_aqi")
    /\ out' = Put(out, "pm25_to_aqi", pm25_to_aqi(ToFloat(pm25_value)))
    /\ UNCHANGED inputs

\* aqi_category(aqi) of the AQI just computed (line 205)
CallAqiCategory ==
    /\ Ran("pm25_to_aqi")
    /\ ~Ran("aqi_category")
    /\ out' = Put(out, "aqi_category", aqi_category(out["pm25_to_aqi"]))
    /\ UNCHANGED inputs

\* lines 269-300 for the sensor whose AQI was just computed, in a frame
\* whose aqi_nowcast column has one of the dtypes that AQI allows: idxmax
\* of an object column raises TypeError at line 269; otherwise line 297
\* calls aqi_color with the value the frame holds, and int(aqi) of line 300
\* raises ValueError when that value is nan
CallAqiColor ==
    /\ Ran("pm25_to_aqi")
    /\ ~Ran("aqi_color")
    /\ ~Ran("idxmax.raised")
    /\ \E dtype \in frame_dtypes(out["pm25_to_aqi"]) :
          out' = IF dtype = "object"
                 THEN Put(out, "idxmax.raised", "TypeError")
                 ELSE IF frame_aqi(out["pm25_to_aqi"], dtype) = NaN
                 THEN Put(Put(out, "aqi_color", aqi_color(NaN)), "int.raised", "ValueError")
                 ELSE Put(out, "aqi_color", aqi_color(frame_aqi(out["pm25_to_aqi"], dtype)))
    /\ UNCHANGED inputs

Next ==
    \/ CallAppPm25ToAqi
    \/ CallReportColor
    \/ CallPm25ToAqi
    \/ CallAqiCategory
    \/ CallAqiColor

Spec == Init /\ [][Next]_vars

(***************************************************************************)
(* SpecLookup: one integer AQI through the category and colour lookups of  *)
(* both dashboards.                                                        *)
(***************************************************************************)
MaxAqi == 500

InitLookup ==
    /\ pm25_value = None
    /\ aqi_in \in {PyInt(a) : a \in 0..MaxAqi}
    /\ rows = <<>>
    /\ city_coords = None
    /\ df_fires = <<>>
    /\ df_forecast = <<>>
    /\ NoScript
    /\ out = <<>>

LookupAqiCategory ==
    /\ ~Ran("aqi_category")
    /\ out' = Put(out, "aqi_category", aqi_category(aqi_in))
    /\ UNCHANGED inputs

LookupAqiColor ==
    /\ ~Ran("aqi_color")
    /\ out' = Put(out, "aqi_color", aqi_color(aqi_in))
    /\ UNCHANGED inputs

\* src/app/app_streamlit.py lines 27-32 with aqi = aqi_in
LookupAppCategory ==
    /\ ~Ran("app_category")
    /\ out' = Put(out, "app_category", app_category(aqi_in.int))
    /\ UNCHANGED inputs

\* src/app/app_streamlit.py line 48 with aqi_value = aqi_in
LookupReportColor ==
    /\ ~Ran("report_aqi_color")
    /\ out' = Put(out, "report_aqi_color", report_aqi_color(aqi_in))
    /\ UNCHANGED inputs

NextLookup ==
    \/ LookupAqiCategory
    \/ LookupAqiColor
    \/ LookupAppCategory
    \/ LookupReportColor

SpecLookup == InitLookup /\ [][NextLookup]_vars

(***************************************************************************)
(* analyze_fire_impact (src/app/app_streamlit.py lines 35-41).  A data     *)
(* frame is the sequence of its rows.  The hotspots and the reference      *)
(* coordinate lie on one meridian and a latitude is given in metres of arc *)
(* from the equator, so the great-circle distance of two points is the     *)
(* difference of their latitudes; a distance in km is the Decimal           *)
(* metres / 1000.                                                          *)
(***************************************************************************)
\* a coordinate pair (lat, lon)
Point(lat, lon) == [lat |-> lat, lon |-> lon]

\* confidence_filter with >= in place of >
confidence_filter_inclusive(row) == row.confidence.int >= 80

\* line 37: df_fires['confidence'] > 80
confidence_filter(row) == row.confidence.int > 80

\* line 40: great_circle((city_lat, city_lon), (lat, lon)).kilometers
great_circle(a, b) ==
    Decimal(IF a.lat >= b.lat THEN a.lat - b.lat ELSE b.lat - a.lat, 1000)

\* line 41: impactful_fires['distance_km'] <= 500
distance_filter(row) == row.distance_km.dec <= 500 * row.distance_km.scale

\* line 41: sort_values(by='distance_km'); frames this small are sorted by
\* insertion, which keeps the order of equal distances
RECURSIVE InsertByDistance(_, _)
InsertByDistance(sorted, row) ==
    IF sorted = <<>> THEN <<row>>
    ELSE IF sorted[Len(sorted)].distance_km.dec <= row.distance_km.dec
         THEN Append(sorted, row)
    ELSE Append(InsertByDistance(SubSeq(sorted, 1, Len(sorted) - 1), row),
                sorted[Len(sorted)])

RECURSIVE sort_values(_, _)
sort_values(df, n) ==
    IF n = 0 THEN <<>> ELSE InsertByDistance(sort_values(df, n - 1), df[n])

\* head taking the last n rows instead of the first n
head_from_end(df, n) == IF Len(df) <= n THEN df ELSE SubSeq(df, Len(df) - n + 1, Len(df))

\* line 41: .head(n)
head(df, n) == IF Len(df) <= n THEN df ELSE SubSeq(df, 1, n)

\* line 40: the frame with the distance_km column added
with_distance(coords, df) ==
    AsList([i \in 1..Len(df) |->
        [confidence  |-> df[i].confidence,
         latitude    |-> df[i].latitude,
         longitude   |-> df[i].longitude,
         distance_km |-> great_circle(coords, Point(df[i].latitude, df[i].longitude))]])

\* a categorical confidence ('l', 'n', 'h') as FIRMS sends it for VIIRS
PyStr(s) == [str |-> s]

\* line 37 raises TypeError when the confidence column holds a str: the
\* comparison with 80 is made element by element, after the early return
\* of line 36
analyze_fire_impact_raises(coords, fires) ==
    /\ fires # <<>>
    /\ coords # None
    /\ \E i \in 1..Len(fires) : ~IsInt(fires[i].confidence)

\* the frame analyze_fire_impact returns when it does not raise
analyze_fire_impact(coords, fires) ==
    IF fires = <<>> \/ coords = None THEN <<>>
    ELSE LET impactful_fires == SelectSeq(fires, confidence_filter)
         IN  IF impactful_fires = <<>> THEN <<>>
             ELSE LET near == SelectSeq(with_distance(coords, impactful_fires),
                                        distance_filter)
                  IN  head(sort_values(near, Len(near)), 10)

(***************************************************************************)
(* SpecNowcast: the hourly rows of one sensor through nowcast_pm25 (on the *)
(* values in the order the rows arrived) and through the per-sensor part   *)
(* of fetch_openaq_pm25_hours_bbox.                                        *)
(***************************************************************************)
MaxLen == 3
MaxConstLen == 12

SeqsUpTo(S, n) == UNION {[1..k -> S] : k \in 0..n}

NumericReadings ==
    {Decimal(0, 1), Decimal(1, 10), Decimal(10, 1), Decimal(15, 1), Decimal(20, 1)}
Readings == {None, NaN} \cup NumericReadings

\* rows carrying vals, stamped with end-of-hour times, arriving oldest first
\* ("asc") or newest first ("desc")
Stamp(vals, order) ==
    [i \in 1..Len(vals) |->
        [t     |-> IF order = "asc" THEN i ELSE Len(vals) + 1 - i,
         value |-> vals[i]]]

\* histories with w = 33/41, whose square lies 0.0003 ulp from a tie
TieHistories ==
    {<<Decimal(41, 1), Decimal(36, 1), Decimal(33, 1)>>,
     <<Decimal(33, 1), Decimal(36, 1), Decimal(41, 1)>>}

SensorHistories ==
    {Stamp(vals, order) : vals \in SeqsUpTo(Readings, MaxLen),
                          order \in {"asc", "desc"}}
    \cup {Stamp([i \in 1..n |-> v], "asc") : n \in 2..MaxConstLen,
                                             v \in NumericReadings}
    \cup {Stamp(vals, order) : vals \in TieHistories, order \in {"asc", "desc"}}

InitNowcast ==
    /\ pm25_value = None
    /\ aqi_in = None
    /\ rows \in SensorHistories
    /\ city_coords = None
    /\ df_fires = <<>>
    /\ df_forecast = <<>>
    /\ NoScript
    /\ out = <<>>

\* the values of the rows in the order they arrived
arrival_values == AsList([i \in 1..Len(rows) |-> ToFloat(rows[i].value)])

CallNowcast ==
    /\ ~Ran("nowcast_pm25")
    /\ \E result \in nowcast_pm25(arrival_values) :
          out' = Put(out, "nowcast_pm25", result)
    /\ UNCHANGED inputs

FetchSensor ==
    /\ ~Ran("sensor_row")
    /\ \E row \in sensor_row(rows) :
          out' = Put(out, "sensor_row", row)
    /\ UNCHANGED inputs

NextNowcast ==
    \/ CallNowcast
    \/ FetchSensor

SpecNowcast == InitNowcast /\ [][NextNowcast]_vars

(***************************************************************************)
(* SpecFire: a frame of hotspots and a reference coordinate through        *)
(* analyze_fire_impact.                                                    *)
(***************************************************************************)
MaxFires == 3

FireConfidences == {80, 81}
FireLatitudes == {10000, 500000, 500001}
Hotspots ==
    {[confidence |-> PyInt(c), latitude |-> y, longitude |-> 0] :
        c \in FireConfidences, y \in FireLatitudes}
    \cup {[confidence |-> PyStr("h"), latitude |-> 10000, longitude |-> 0],
          [confidence |-> PyStr("h"), latitude |-> 500001, longitude |-> 0],
          [confidence |-> PyStr("l"), latitude |-> 10000, longitude |-> 0]}

\* frames of more than 10 hotspots, 45 km apart along the meridian, in the
\* row order given by step; every weak-th row has confidence 80
MaxBigFires == 12
BigFrame(n, step, weak) ==
    [i \in 1..n |->
        [confidence |-> PyInt(IF weak # 0 /\ i % weak = 0 THEN 80 ELSE 81),
         latitude   |-> ((i * step) % (n + 1)) * 45000,
         longitude  |-> 0]]
BigFrames ==
    UNION {{BigFrame(n, step, weak) : step \in {1, 4, 5, n}, weak \in {0, 4}} :
               n \in 11..MaxBigFires}

InitFire ==
    /\ pm25_value = None
    /\ aqi_in = None
    /\ rows = <<>>
    /\ city_coords \in {None, Point(0, 0)}
    /\ df_fires \in SeqsUpTo(Hotspots, MaxFires) \cup BigFrames
    /\ df_forecast = <<>>
    /\ NoScript
    /\ out = <<>>

AnalyzeFireImpact ==
    /\ ~Ran("analyze_fire_impact")
    /\ ~Ran("analyze_fire_impact.raised")
    /\ out' = IF analyze_fire_impact_raises(city_coords, df_fires)
              THEN Put(out, "analyze_fire_impact.raised", "TypeError")
              ELSE Put(out, "analyze_fire_impact",
                       analyze_fire_impact(city_coords, df_fires))
    /\ UNCHANGED inputs

NextFire == AnalyzeFireImpact

SpecFire == InitFire /\ [][NextFire]_vars

(***************************************************************************)
(* SpecTrend: a WAQI daily forecast through the forecast summary of        *)
(* generate_summary_report (src/app/app_streamlit.py lines 58-65).  The    *)
(* daily averages are the integers the WAQI feed sends.                    *)
(***************************************************************************)
\* report_trend_of with the first and the last day exchanged
report_trend_of_exchanged(current_avg, future_avg) ==
    IF FGt(FromInt(current_avg), FMul(FromInt(future_avg), Dec(11, 10)))
    THEN "expected to worsen"
    ELSE IF FLt(FromInt(current_avg), FMul(FromInt(future_avg), Dec(9, 10)))
    THEN "expected to improve"
    ELSE "expected to remain stable"

\* lines 62-64: trend, given current_avg and future_avg
report_trend_of(current_avg, future_avg) ==
    IF FGt(FromInt(future_avg), FMul(FromInt(current_avg), Dec(11, 10)))
    THEN "expected to worsen"
    ELSE IF FLt(FromInt(future_avg), FMul(FromInt(current_avg), Dec(9, 10)))
    THEN "expected to improve"
    ELSE "expected to remain stable"

\* lines 59-64: the trend of a forecast frame, None when the frame is empty
report_trend(forecast) ==
    IF forecast = <<>> THEN None
    ELSE report_trend_of(forecast[1].avg, forecast[Len(forecast)].avg)

MaxDays == 2
AvgValues == {0, 9, 10, 11, 85, 90, 95, 99, 100, 110, 111, 115, 121}
Forecasts == SeqsUpTo({[avg |-> a] : a \in AvgValues}, MaxDays)

InitTrend ==
    /\ pm25_value = None
    /\ aqi_in = None
    /\ rows = <<>>
    /\ city_coords = None
    /\ df_fires = <<>>
    /\ df_forecast \in Forecasts
    /\ NoScript
    /\ out = <<>>

ReportTrend ==
    /\ ~Ran("report_trend")
    /\ out' = Put(out, "report_trend", report_trend(df_forecast))
    /\ UNCHANGED inputs

NextTrend == ReportTrend

SpecTrend == InitTrend /\ [][NextTrend]_vars

(***************************************************************************)
(* SpecScript: one run of the script of src/app/app_streamlit.py, lines    *)
(* 137-204.  pc is the section about to run, assigned the module-level     *)
(* names bound so far; a section that reads an unbound name ends the run   *)
(* with NameError, a call that raises ends it with the exception raised.   *)
(***************************************************************************)
WaqiReadings == {None, Decimal(1200, 100), Decimal(15000, 100)}
WaqiForecasts == {<<>>, <<[avg |-> 100], [avg |-> 115]>>}
FirmsFrames == {<<h>> : h \in Hotspots}

\* lines 137-139
InitScript ==
    /\ pm25_value = None
    /\ aqi_in = None
    /\ rows = <<>>
    /\ city_coords = None
    /\ df_fires = <<>>
    /\ df_forecast = <<>>
    /\ df_aq = <<>>
    /\ aqi_value = None
    /\ impactful_fires_df = <<>>
    /\ pc = "fetch_waqi"
    /\ assigned = {"city", "city_coords", "df_aq", "df_forecast"}
    /\ out = <<>>

\* lines 141-149, status ok: fetch_waqi_data returns at line 98
FetchWaqiOk ==
    /\ pc = "fetch_waqi"
    /\ \E pm25 \in WaqiReadings, forecast \in WaqiForecasts :
          /\ df_aq' = <<[pm25_latest_ugm3 |-> pm25]>>
          /\ df_forecast' = forecast
    /\ city_coords' = Point(0, 0)
    /\ assigned' = assigned \cup {"api_status"}
    /\ pc' = "fetch_firms"
    /\ UNCHANGED <<pm25_value, aqi_in, rows, df_fires, aqi_value, impactful_fires_df, out>>

\* lines 141-147, status not ok: fetch_waqi_data returns at line 90
FetchWaqiNotOk ==
    /\ pc = "fetch_waqi"
    /\ df_aq' = <<>>
    /\ df_forecast' = <<>>
    /\ city_coords' = None
    /\ assigned' = assigned \cup {"api_status"}
    /\ pc' = "fetch_firms"
    /\ UNCHANGED <<pm25_value, aqi_in, rows, df_fires, aqi_value, impactful_fires_df, out>>

\* lines 141-142 and 148-149: fetch_waqi_data raises
FetchWaqiException ==
    /\ pc = "fetch_waqi"
    /\ df_aq' = <<>>
    /\ df_forecast' = <<>>
    /\ pc' = "fetch_firms"
    /\ UNCHANGED <<pm25_value, aqi_in, rows, city_coords, df_fires, aqi_value,
                   impactful_fires_df, assigned, out>>

\* lines 151-154: fetch_nasa_firms_global returns a frame with rows
FetchFirmsData ==
    /\ pc = "fetch_firms"
    /\ df_fires' \in FirmsFrames
    /\ assigned' = assigned \cup {"df_fires"}
    /\ pc' = "summary"
    /\ UNCHANGED <<pm25_value, aqi_in, rows, city_coords, df_forecast, df_aq,
                   aqi_value, impactful_fires_df, out>>

\* lines 151-157: fetch_nasa_firms_global returns an empty frame (line 81
\* catches the exceptions of both feeds) or raises
FetchFirmsEmpty ==
    /\ pc = "fetch_firms"
    /\ df_fires' = <<>>
    /\ assigned' = assigned \cup {"df_fires"}
    /\ pc' = "summary"
    /\ UNCHANGED <<pm25_value, aqi_in, rows, city_coords, df_forecast, df_aq,
                   aqi_value, impactful_fires_df, out>>

\* lines 43-65: what generate_summary_report writes
generate_summary_report(aqi, impactful_fires, forecast) ==
    [aqi_color |-> report_aqi_color(aqi),
     fires     |-> Len(impactful_fires),
     trend     |-> report_trend(forecast)]

\* lines 160-166 with df_aq empty: the block is skipped
SummarySkipped ==
    /\ pc = "summary"
    /\ df_aq = <<>>
    /\ pc' = "fire_map"
    /\ UNCHANGED <<pm25_value, aqi_in, rows, city_coords, df_fires, df_forecast,
                   df_aq, aqi_value, impactful_fires_df, assigned, out>>

\* lines 160-165 with df_aq non-empty and analyze_fire_impact raising at 164
SummaryRaises ==
    /\ pc = "summary"
    /\ df_aq # <<>>
    /\ analyze_fire_impact_raises(city_coords, df_fires)
    /\ pm25_value' = df_aq[1].pm25_latest_ugm3
    /\ aqi_value' = app_pm25_to_aqi(ToFloat(df_aq[1].pm25_latest_ugm3))[1]
    /\ assigned' = assigned \cup {"pm25_value", "aqi_value", "aqi_category"}
    /\ pc' = "TypeError"
    /\ UNCHANGED <<aqi_in, rows, city_coords, df_fires, df_forecast, df_aq,
                   impactful_fires_df, out>>

\* lines 160-165 with df_aq non-empty
Summary ==
    /\ pc = "summary"
    /\ df_aq # <<>>
    /\ ~analyze_fire_impact_raises(city_coords, df_fires)
    /\ pm25_value' = df_aq[1].pm25_latest_ugm3
    /\ aqi_value' = app_pm25_to_aqi(ToFloat(df_aq[1].pm25_latest_ugm3))[1]
    /\ impactful_fires_df' = analyze_fire_impact(city_coords, df_fires)
    /\ assigned' = assigned \cup
           {"pm25_value", "aqi_value", "aqi_category", "impactful_fires_df"}
    /\ out' = Put(out, "summary",
                  generate_summary_report(aqi_value', impactful_fires_df', df_forecast))
    /\ pc' = "fire_map"
    /\ UNCHANGED <<aqi_in, rows, city_coords, df_fires, df_forecast, df_aq>>

\* the section at pc reads name: it runs when the name is bound
Reads(name) == name \in assigned

\* lines 171-177: the fire map reads df_fires
FireMap ==
    /\ pc = "fire_map"
    /\ IF Reads("df_fires")
       THEN /\ out' = Put(out, "fire_map", Len(df_fires))
            /\ pc' = "aq_panel"
       ELSE /\ out' = out
            /\ pc' = "NameError"
    /\ UNCHANGED <<pm25_value, aqi_in, rows, city_coords, df_fires, df_forecast,
                   df_aq, aqi_value, impactful_fires_df, assigned>>

\* lines 179-185: the air-quality panel reads aqi_value when df_aq has a row
AqPanel ==
    /\ pc = "aq_panel"
    /\ IF df_aq = <<>>
       THEN /\ out' = Put(out, "aq_panel", None)
            /\ pc' = "impact"
       ELSE IF Reads("aqi_value")
       THEN /\ out' = Put(out, "aq_panel", aqi_value)
            /\ pc' = "impact"
       ELSE /\ out' = out
            /\ pc' = "NameError"
    /\ UNCHANGED <<pm25_value, aqi_in, rows, city_coords, df_fires, df_forecast,
                   df_aq, aqi_value, impactful_fires_df, assigned>>

\* lines 188-196: the impact assessment reads impactful_fires_df at line 190
ImpactAssessment ==
    /\ pc = "impact"
    /\ IF Reads("impactful_fires_df")
       THEN /\ out' = Put(out, "impact", Len(impactful_fires_df))
            /\ pc' = "forecast"
       ELSE /\ out' = out
            /\ pc' = "NameError"
    /\ UNCHANGED <<pm25_value, aqi_in, rows, city_coords, df_fires, df_forecast,
                   df_aq, aqi_value, impactful_fires_df, assigned>>

\* lines 199-204: the forecast section reads df_forecast
ForecastSection ==
    /\ pc = "forecast"
    /\ IF Reads("df_forecast")
       THEN /\ out' = Put(out, "forecast", Len(df_forecast))
            /\ pc' = "done"
       ELSE /\ out' = out
            /\ pc' = "NameError"
    /\ UNCHANGED <<pm25_value, aqi_in, rows, city_coords, df_fires, df_forecast,
                   df_aq, aqi_value, impactful_fires_df, assigned>>

NextScript ==
    \/ FetchWaqiOk
    \/ FetchWaqiNotOk
    \/ FetchWaqiException
    \/ FetchFirmsData
    \/ FetchFirmsEmpty
    \/ SummarySkipped
    \/ SummaryRaises
    \/ Summary
    \/ FireMap
    \/ AqPanel
    \/ ImpactAssessment
    \/ ForecastSection

SpecScript == InitScript /\ [][NextScript]_vars

(***************************************************************************)
(* Claims about the concentration -> AQI conversion and the lookups.       *)
(***************************************************************************)
IsNumberInput == pm25_value # None /\ pm25_value # NaN

\* C1: pm25_to_aqi of a missing concentration (None) is an unknown result that
\* is not a number, in every dashboard variant, and the category and colour
\* of that unknown result are "Unknown" and neutral gray.
C1_MissingIsUnknown ==
    pm25_value = None =>
        /\ Ran("app_pm25_to_aqi") => ~IsInt(out["app_pm25_to_aqi"][1])
        /\ Ran("pm25_to_aqi") => out["pm25_to_aqi"] = None
        /\ Ran("aqi_category") => out["aqi_category"] = "Unknown"
        /\ Ran("aqi_color") => out["aqi_color"] = "#999999"

\* C2: at both ends of every band of both tables the AQI is the band's index
\* end exactly: pm25_to_aqi(Clow) = Ilow and pm25_to_aqi(Chigh) = Ihigh; the
\* legacy table gives AQI(12.0) = 50 and AQI(12.1) = 51, the 2024 table
\* AQI(9.0) = 50 and AQI(9.1) = 51.
app_index_ends == <<<<0, 50>>, <<51, 100>>, <<101, 150>>, <<151, 200>>, <<201, 300>>>>

C2_BoundaryExact ==
    IsNumberInput =>
        LET c == ToFloat(pm25_value)
        IN  /\ Ran("pm25_to_aqi") =>
                 /\ \A i \in 1..Len(bps) : \A side \in {1, 2} :
                        c = bps[i][side] => out["pm25_to_aqi"] = PyInt(bps[i][side + 2])
                 /\ pm25_value = Decimal(900, 100) => out["pm25_to_aqi"] = PyInt(50)
                 /\ pm25_value = Decimal(910, 100) => out["pm25_to_aqi"] = PyInt(51)
            /\ Ran("app_pm25_to_aqi") =>
                 /\ \A i \in 1..Len(app_bps) : \A side \in {1, 2} :
                        c = app_bps[i][side] =>
                            out["app_pm25_to_aqi"][1] = PyInt(app_index_ends[i][side])
                 /\ pm25_value = Decimal(1200, 100) => out["app_pm25_to_aqi"][1] = PyInt(50)
                 /\ pm25_value = Decimal(1210, 100) => out["app_pm25_to_aqi"][1] = PyInt(51)

\* a band end of each table has been converted by both variants
C2_Witness ==
    /\ pm25_value = Decimal(3540, 100)
    /\ Ran("pm25_to_aqi") /\ out["pm25_to_aqi"] = PyInt(100)
    /\ Ran("app_pm25_to_aqi") /\ out["app_pm25_to_aqi"][1] = PyInt(100)

\* C3: pm25_to_aqi is monotonically non-decreasing: C1 <= C2 implies
\* pm25_to_aqi(C1) <= pm25_to_aqi(C2) for non-negative concentrations at any
\* decimal resolution, in both variants.
C3_Monotone ==
    (IsNumberInput /\ pm25_value.dec >= 0) =>
        \A d \in {n \in ConcHundredths : 0 <= n /\ n <= pm25_value.dec} :
            /\ Ran("pm25_to_aqi") =>
                 pm25_to_aqi(Dec(d, 100)).int <= out["pm25_to_aqi"].int
            /\ Ran("app_pm25_to_aqi") =>
                 app_pm25_to_aqi(Dec(d, 100))[1].int <= out["app_pm25_to_aqi"][1].int

\* the bands of each table that contain c (Clow <= c <= Chigh)
MatchingBands(c) == {i \in 1..Len(bps) : FLe(bps[i][1], c) /\ FLe(c, bps[i][2])}
AppMatchingBands(c) ==
    {i \in 1..Len(app_bps) : FLe(app_bps[i][1], c) /\ FLe(c, app_bps[i][2])}
TopChigh == bps[Len(bps)][2]
AppTopChigh == app_bps[Len(app_bps)][2]

\* C4: the bands are contiguous and non-overlapping: every concentration
\* 0 <= C <= top Chigh lies in exactly one band, so the cap (500, legacy 301)
\* is returned only when C exceeds the top band's Chigh.
C4_BandsCoverRange ==
    IsNumberInput =>
        LET c == ToFloat(pm25_value)
        IN  /\ (Ran("pm25_to_aqi") /\ FLe(FZero, c) /\ FLe(c, TopChigh)) =>
                 Cardinality(MatchingBands(c)) = 1
            /\ (Ran("app_pm25_to_aqi") /\ FLe(FZero, c) /\ FLe(c, AppTopChigh)) =>
                 /\ Cardinality(AppMatchingBands(c)) = 1
                 /\ out["app_pm25_to_aqi"][1] # PyInt(301)

\* C5: a concentration that matches no band and is not above the top band's
\* Chigh (a gap between bands, a value below the first band) gets an explicit
\* invalid-input error and never a numeric AQI.
C5_NoBandIsError ==
    IsNumberInput =>
        LET c == ToFloat(pm25_value)
        IN  /\ (Ran("pm25_to_aqi") /\ MatchingBands(c) = {} /\ FLe(c, TopChigh)) =>
                 ~IsInt(out["pm25_to_aqi"])
            /\ (Ran("app_pm25_to_aqi") /\ AppMatchingBands(c) = {} /\ FLe(c, AppTopChigh)) =>
                 ~IsInt(out["app_pm25_to_aqi"][1])

\* the fixed table of categories and colours by AQI
TableCategory(a) ==
    IF a <= 50 THEN "Good"
    ELSE IF a <= 100 THEN "Moderate"
    ELSE IF a <= 150 THEN "Unhealthy for Sensitive Groups"
    ELSE IF a <= 200 THEN "Unhealthy"
    ELSE IF a <= 300 THEN "Very Unhealthy"
    ELSE "Hazardous"
TableColor(a) ==
    IF a <= 50 THEN "green"
    ELSE IF a <= 100 THEN "yellow"
    ELSE IF a <= 150 THEN "orange"
    ELSE IF a <= 200 THEN "red"
    ELSE IF a <= 300 THEN "purple"
    ELSE "maroon"
\* the EPA colours aqi_color returns, by name
ColorName(hex) ==
    CASE hex = "#00e400" -> "green"
      [] hex = "#ffff00" -> "yellow"
      [] hex = "#ff7e00" -> "orange"
      [] hex = "#ff0000" -> "red"
      [] hex = "#8f3f97" -> "purple"
      [] hex = "#7e0023" -> "maroon"
      [] OTHER -> "neutral"

\* C6: for every integer AQI in 0..500 the category and colour are those of
\* the fixed table, for aqi_category, aqi_color, the category computed inside
\* the legacy pm25_to_aqi and the colour chosen in generate_summary_report.
C6_LookupTable ==
    /\ Ran("aqi_category") => out["aqi_category"] = TableCategory(aqi_in.int)
    /\ Ran("aqi_color") => ColorName(out["aqi_color"]) = TableColor(aqi_in.int)
    /\ Ran("app_category") => out["app_category"] = TableCategory(aqi_in.int)
    /\ Ran("report_aqi_color") => out["report_aqi_color"] = TableColor(aqi_in.int)

(***************************************************************************)
(* Claims about NowCast and the per-sensor AQI.                            *)
(***************************************************************************)
\* the values of the rows as the API sent them: in arrival order, and the
\* last WindowHours of them by time
ArrivalJson == AsList([i \in 1..Len(rows) |-> rows[i].value])
WindowJson ==
    LET ts == SortByTime(rows, Len(rows))
    IN  LastHours(AsList([i \in 1..Len(ts) |-> ts[i].value]))
ValidJson(js) == SelectSeq(js, IsValidReading)

\* C7 (as claimed): with fewer than 2 valid readings nowcast_pm25 returns
\* None and the AQI recorded for the sensor is unknown, never a number.
C7_FewReadingsUnknown ==
    /\ (Ran("nowcast_pm25") /\ Len(ValidJson(ArrivalJson)) < 2) =>
            out["nowcast_pm25"] = None
    /\ (Ran("sensor_row") /\ Len(ValidJson(WindowJson)) < 2) =>
            /\ out["sensor_row"].pm25_nowcast_ugm3 = None
            /\ out["sensor_row"].aqi_nowcast = None

\* C7 (amended): with fewer than 2 valid readings nowcast_pm25 returns None,
\* and the AQI recorded for the sensor is pm25_to_aqi of the latest hourly
\* value of the window: a number when that value is a number (the cap 500
\* when it is NaN), unknown only when the window is empty or its latest value
\* is missing.
C7_FewReadingsFallBack ==
    /\ (Ran("nowcast_pm25") /\ Len(ValidJson(ArrivalJson)) < 2) =>
            out["nowcast_pm25"] = None
    /\ (Ran("sensor_row") /\ Len(ValidJson(WindowJson)) < 2) =>
            LET row == out["sensor_row"]
                latest == WindowJson[Len(WindowJson)]
            IN  /\ row.pm25_nowcast_ugm3 = None
                /\ IF WindowJson = <<>> THEN row.aqi_nowcast = None
                   ELSE IF latest = None THEN row.aqi_nowcast = None
                   ELSE IF latest = NaN THEN row.aqi_nowcast = PyInt(500)
                   ELSE /\ IsInt(row.aqi_nowcast)
                        /\ row.aqi_nowcast = pm25_to_aqi(ToFloat(latest))

\* a sensor with the single reading 10.0 got the AQI of that reading
C7_Witness ==
    /\ rows = Stamp(<<Decimal(10, 1)>>, "asc")
    /\ Ran("sensor_row")
    /\ out["sensor_row"].pm25_nowcast_ugm3 = None
    /\ out["sensor_row"].aqi_nowcast = PyInt(53)

\* The NowCast formula in exact arithmetic: the readings in hundredths of a
\* ug/m3, w = p / q in lowest terms, the result Num / Den hundredths.
Hundredths(j) == j.dec * (100 \div j.scale)
RECURSIVE GCD(_, _)
GCD(a, b) == IF b = 0 THEN a ELSE GCD(b, a % b)
RECURSIVE IntPow(_, _)
IntPow(a, i) == IF i = 0 THEN 1 ELSE a * IntPow(a, i - 1)
RECURSIVE IntSum(_, _)
IntSum(f, n) == IF n = 0 THEN 0 ELSE f[n] + IntSum(f, n - 1)
IntMax(S) == CHOOSE x \in S : \A y \in S : y <= x
IntMin(S) == CHOOSE x \in S : \A y \in S : x <= y

\* js: the valid readings oldest first, at least 2 of them, the largest > 0
FormulaNowcast(js) ==
    LET n == Len(js)
        c == [i \in 1..n |-> Hundredths(js[n + 1 - i])]   \* c[1] the most recent
        cmin == IntMin({c[i] : i \in 1..n})
        cmax == IntMax({c[i] : i \in 1..n})
        g == GCD(cmin, cmax)
        p == IF 2 * cmin > cmax THEN cmin \div g ELSE 1
        q == IF 2 * cmin > cmax THEN cmax \div g ELSE 2
        wt == [i \in 1..n |-> IntPow(p, i - 1) * IntPow(q, n - i)]
    IN  [num |-> IntSum([i \in 1..n |-> wt[i] * c[i]], n), den |-> IntSum(wt, n)]

ToMilli(x) == PyRound(FMul(x, FromInt(1000)))
\* x is within 0.001 of ref.num / ref.den hundredths
MatchesFormula(x, ref) ==
    /\ IsFloat(x)
    /\ LET d == ToMilli(x) * ref.den - ref.num * 10
       IN  -ref.den <= d /\ d <= ref.den
HasNowcast(js) ==
    /\ Len(ValidJson(js)) >= 2
    /\ \E i \in 1..Len(js) : IsValidReading(js[i]) /\ js[i].dec > 0

\* C8: for an oldest-first history with at least 2 valid readings and
\* cmax > 0, nowcast_pm25 returns sum(w^i * c_i) / sum(w^i) with
\* w = max(0.5, cmin/cmax) and c_0 the most recent (last) valid reading;
\* the oldest-first history [10, 20] gives 16.67; and the history built by
\* fetch_openaq_pm25_hours_bbox is passed oldest first by time.
C8_WeightsMostRecentFirst ==
    /\ (Ran("nowcast_pm25") /\ HasNowcast(ArrivalJson)) =>
            MatchesFormula(out["nowcast_pm25"], FormulaNowcast(ValidJson(ArrivalJson)))
    /\ (Ran("sensor_row") /\ HasNowcast(WindowJson)) =>
            MatchesFormula(out["sensor_row"].pm25_nowcast_ugm3,
                           FormulaNowcast(ValidJson(WindowJson)))
    /\ (Ran("nowcast_pm25") /\ ArrivalJson = <<Decimal(10, 1), Decimal(20, 1)>>) =>
            ToMilli(out["nowcast_pm25"]) = 16667

\* the rows of the hours [10, 20] arrived newest first and the sensor got 16.667
C8_Witness ==
    /\ rows = Stamp(<<Decimal(20, 1), Decimal(10, 1)>>, "desc")
    /\ Ran("sensor_row")
    /\ ToMilli(out["sensor_row"].pm25_nowcast_ugm3) = 16667
    /\ Ran("nowcast_pm25")
    /\ ToMilli(out["nowcast_pm25"]) = 13333

IsConstantHistory ==
    /\ Len(rows) >= 2
    /\ IsValidReading(rows[1].value)
    /\ \A i \in 1..Len(rows) : rows[i].value = rows[1].value

\* |r - v| <= n * 2^-52 * v for floats r, v >= 0
WithinRounding(r, v, n) ==
    LET e0 == IF r.e <= v.e THEN r.e ELSE v.e
        R  == BShl(r.m, r.e - e0)
        V  == BShl(v.m, v.e - e0)
        D  == IF BCmp(R, V) >= 0 THEN BSub(R, V) ELSE BSub(V, R)
    IN  BCmp(BShl(D, 52), BMulSmall(V, n)) <= 0

\* C9 (as claimed): for every history of N >= 2 identical valid readings v
\* (v >= 0), nowcast_pm25 returns exactly v.
C9_ConstantExact ==
    (IsConstantHistory /\ Ran("nowcast_pm25")) =>
        out["nowcast_pm25"] = ToFloat(rows[1].value)

\* C9 (amended): for every history of N >= 2 identical valid readings v
\* (v >= 0), nowcast_pm25 returns v up to the rounding of the float sum:
\* |result - v| <= N * 2^-52 * v, and exactly v when v is a whole number.
C9_ConstantWithinRounding ==
    (IsConstantHistory /\ Ran("nowcast_pm25")) =>
        LET v == ToFloat(rows[1].value)
            r == out["nowcast_pm25"]
        IN  /\ IsFloat(r)
            /\ WithinRounding(r, v, Len(rows))
            /\ rows[1].value.scale = 1 => r = v

\* three readings of 0.1 gave a NowCast that is not the float 0.1
C9_Witness ==
    /\ IsConstantHistory
    /\ Len(rows) = 3
    /\ rows[1].value = Decimal(1, 10)
    /\ Ran("nowcast_pm25")
    /\ out["nowcast_pm25"] # Dec(1, 10)

(***************************************************************************)
(* Claims about analyze_fire_impact.                                       *)
(***************************************************************************)
\* the distance of hotspot h from the reference coordinate, in metres
MetresAway(h) ==
    IF h.latitude >= city_coords.lat THEN h.latitude - city_coords.lat
    ELSE city_coords.lat - h.latitude
Qualifies(h) == h.confidence.int > 80 /\ MetresAway(h) <= 500 * 1000
Included(h) ==
    \E j \in 1..Len(out["analyze_fire_impact"]) :
        /\ out["analyze_fire_impact"][j].confidence = h.confidence
        /\ out["analyze_fire_impact"][j].latitude = h.latitude
        /\ out["analyze_fire_impact"][j].longitude = h.longitude

\* C10: analyze_fire_impact includes a hotspot only if its confidence is
\* strictly greater than 80 and its great-circle distance to the reference
\* coordinate is at most 500 km: confidence 81 at 10 km is included,
\* confidence 80 is excluded, a distance of exactly 500 km is included and
\* any distance above 500 km is excluded.
C10_ImpactFilter ==
    (Ran("analyze_fire_impact") /\ city_coords # None) =>
        LET res == out["analyze_fire_impact"]
            qualifying == {i \in 1..Len(df_fires) : Qualifies(df_fires[i])}
        IN  /\ \A j \in 1..Len(res) :
                   /\ res[j].confidence.int > 80
                   /\ res[j].distance_km.dec <= 500 * res[j].distance_km.scale
                   /\ res[j].distance_km = Decimal(MetresAway(res[j]), 1000)
            /\ \A i \in 1..Len(df_fires) : Included(df_fires[i]) => Qualifies(df_fires[i])
            /\ Cardinality(qualifying) <= 10 =>
                   /\ Len(res) = Cardinality(qualifying)
                   /\ \A i \in qualifying : Included(df_fires[i])

\* of a hotspot at exactly 500 km, one of confidence 80 and one at 500.001 km
\* only the first was kept
C10_Witness ==
    /\ city_coords = Point(0, 0)
    /\ df_fires = << [confidence |-> PyInt(81), latitude |-> 500000, longitude |-> 0],
                     [confidence |-> PyInt(80), latitude |-> 10000, longitude |-> 0],
                     [confidence |-> PyInt(81), latitude |-> 500001, longitude |-> 0] >>
    /\ Ran("analyze_fire_impact")
    /\ Len(out["analyze_fire_impact"]) = 1
    /\ out["analyze_fire_impact"][1].distance_km = Decimal(500000, 1000)

\* C11: the result of analyze_fire_impact is sorted by ascending distance and
\* holds min(10, number of qualifying hotspots) records, which are the nearest
\* qualifying ones: no qualifying hotspot left out of the result is strictly
\* closer than a hotspot in the result.
C11_NearestTen ==
    (Ran("analyze_fire_impact") /\ city_coords # None) =>
        LET res == out["analyze_fire_impact"]
            qualifying == {i \in 1..Len(df_fires) : Qualifies(df_fires[i])}
            nearer(d) == {i \in qualifying : MetresAway(df_fires[i]) <= d}
            kept(d) == {j \in 1..Len(res) : res[j].distance_km.dec <= d}
            atmost10(n) == IF n <= 10 THEN n ELSE 10
        IN  /\ Len(res) = atmost10(Cardinality(qualifying))
            /\ \A j \in 1..(Len(res) - 1) :
                   res[j].distance_km.dec <= res[j + 1].distance_km.dec
            /\ \A j \in 1..Len(res) :
                   /\ res[j].distance_km = Decimal(MetresAway(res[j]), 1000)
                   /\ \E i \in qualifying :
                          /\ df_fires[i].confidence = res[j].confidence
                          /\ df_fires[i].latitude = res[j].latitude
                          /\ df_fires[i].longitude = res[j].longitude
            /\ \A i \in qualifying :
                   Cardinality(kept(MetresAway(df_fires[i])))
                       = atmost10(Cardinality(nearer(MetresAway(df_fires[i]))))

\* of 12 hotspots given farthest first, 11 qualify and the 10 nearest were
\* returned, the nearest first
C11_Witness ==
    /\ city_coords = Point(0, 0)
    /\ df_fires = BigFrame(12, 12, 0)
    /\ Ran("analyze_fire_impact")
    /\ Len(out["analyze_fire_impact"]) = 10
    /\ out["analyze_fire_impact"][1].latitude = 45000
    /\ out["analyze_fire_impact"][10].latitude = 450000

\* a hotspot passes both filters when it lies within 500 km and its
\* confidence exceeds the threshold: above 80 when numeric, 'h' (high) at
\* most when categorical
PassesBothFilters(h) ==
    /\ MetresAway(h) <= 500 * 1000
    /\ IF IsInt(h.confidence) THEN h.confidence.int > 80
       ELSE h.confidence = PyStr("h")

\* C12: analyze_fire_impact returns an empty result and never raises when the
\* hotspot collection is empty, when the reference coordinate is unknown
\* (None), or when no hotspot passes both the confidence and the distance
\* filter.
C12_EmptyNeverRaises ==
    (\/ df_fires = <<>>
     \/ city_coords = None
     \/ \A i \in 1..Len(df_fires) : ~PassesBothFilters(df_fires[i])) =>
        /\ ~Ran("analyze_fire_impact.raised")
        /\ Ran("analyze_fire_impact") => out["analyze_fire_impact"] = <<>>

(***************************************************************************)
(* Claims about the forecast trend.                                        *)
(***************************************************************************)
\* C13: for every non-empty forecast with first daily average `first` and
\* last daily average `last` (non-negative), generate_summary_report
\* classifies the trend as exactly one of worsening if last > 1.1 * first,
\* improving if last < 0.9 * first, stable otherwise (100 -> 115 worsening,
\* 100 -> 85 improving, 100 -> 95 stable); the thresholds are compared here
\* in exact arithmetic.
C13_TrendClasses ==
    (Ran("report_trend") /\ df_forecast # <<>>) =>
        LET first == df_forecast[1].avg
            last  == df_forecast[Len(df_forecast)].avg
        IN  out["report_trend"] =
                IF 10 * last > 11 * first THEN "expected to worsen"
                ELSE IF 10 * last < 9 * first THEN "expected to improve"
                ELSE "expected to remain stable"

\* the forecast 100 -> 115 was classified as worsening
C13_Witness ==
    /\ df_forecast = <<[avg |-> 100], [avg |-> 115]>>
    /\ Ran("report_trend")
    /\ out["report_trend"] = "expected to worsen"

(***************************************************************************)
(* Claims about the scoring operations as a whole.                         *)
(***************************************************************************)
\* C14: no scoring operation raises for an input of the data model; here
\* for analyze_fire_impact over hotspots whose confidence is numeric or
\* categorical and a coordinate that is known or unknown: the call ends
\* with a result (possibly empty), never with an exception.
C14_NoScoringRaises ==
    \A i \in 1..Len(df_fires) :
        (IsInt(df_fires[i].confidence) \/ df_fires[i].confidence = PyStr("h")) =>
            ~Ran("analyze_fire_impact.raised")

(***************************************************************************)
(* Claims about one run of the legacy script.                              *)
(***************************************************************************)
\* C15: for every combination of WAQI outcome (ok, not ok, exception) and
\* FIRMS outcome (data, empty, exception) a run passes through the summary,
\* the fire map, the air-quality panel, the impact assessment and the
\* forecast in order and reaches the end: no run ends with an exception,
\* and every name a section is about to read is bound.
C15_EveryRunReachesEnd ==
    /\ pc \notin {"NameError", "TypeError"}
    /\ pc = "fire_map" => "df_fires" \in assigned
    /\ (pc = "aq_panel" /\ df_aq # <<>>) => "aqi_value" \in assigned
    /\ pc = "impact" => "impactful_fires_df" \in assigned
    /\ pc = "forecast" => "df_forecast" \in assigned

====
